---- MODULE Spec2Model ----
(***************************************************************************)
(* Model of the Kubernetes deployer of spread (package deploy):            *)
(* KubeCluster.Deploy with its namespace pre-pass, the general pass        *)
(* (create / get + patch), the pod cleanup of ReplicationControllers and   *)
(* the load-balancer wait printLoadBalancers.  The remote cluster is a     *)
(* function from object keys to live objects plus a set of pods; every     *)
(* request of a Deploy call is appended to the history variable log.       *)
(***************************************************************************)
EXTENDS Integers, Sequences, FiniteSets, TLC

\* ------------------------------------------------------------------ bounds
MaxBundle == 2      \* longest bundle handed to Deploy
MaxFaults == 1      \* injected request failures (network errors) per behaviour
MaxPolls == 1       \* polling rounds per behaviour that leave a service unassigned
MaxRuns == 2        \* consecutive Deploy calls on the same bundle
MaxServices == 3    \* longest service list handed to printLoadBalancers alone

\* ------------------------------------------------------------ object values
\* A KubeObject: kind, ObjectMeta (namespace, name, resourceVersion) and the
\* kind specific fields the deployer reads: Service.Spec.Type,
\* Service.Spec.ClusterIP, Service.Status.LoadBalancer.Ingress,
\* ReplicationController.Spec.Selector; spec stands for the rest of the Spec.
Obj(kind, ns, name, spec, type, clusterIP, selector) ==
    [kind |-> kind, ns |-> ns, name |-> name, spec |-> spec, rv |-> 0,
     type |-> type, clusterIP |-> clusterIP, ingress |-> {},
     selector |-> selector]

\* the nil KubeObject
NilObj == Obj("", "", "", 0, "", "", {})

ServiceTypeLoadBalancer == "LoadBalancer"
ServiceTypeClusterIP == "ClusterIP"

NsA == Obj("Namespace", "", "a", 1, "", "", {})
SvcAWeb == Obj("Service", "a", "web", 1, ServiceTypeLoadBalancer, "10.0.0.9", {})
SvcBWeb == Obj("Service", "b", "web", 1, ServiceTypeLoadBalancer, "", {})
SvcAApi == Obj("Service", "a", "api", 1, ServiceTypeLoadBalancer, "", {})
SvcADb == Obj("Service", "a", "db", 1, ServiceTypeClusterIP, "", {})
RcA == Obj("ReplicationController", "a", "rc", 1, "", "", {"app"})

\* objects a bundle is built from
Pool == {NsA, SvcAWeb, SvcADb, RcA}
\* services a list given to printLoadBalancers is built from
SvcPool == {SvcAWeb, SvcBWeb, SvcAApi, SvcADb}

Key(o) == <<o.kind, o.ns, o.name>>
NsKey(ns) == <<"Namespace", "", ns>>
Keys == {Key(o) : o \in Pool \cup SvcPool} \cup {NsKey("b")}

\* pods of the cluster: namespace, name, labels
Pod(ns, name, labels) == [ns |-> ns, name |-> name, labels |-> labels]
PodsInit == {Pod("a", "p1", {"app"}), Pod("a", "p2", {"other"}),
             Pod("b", "p3", {"app"}), Pod("a", "p4", {"app", "other"})}

\* sequences without repetition of at most n elements of S
RECURSIVE Arrangements(_, _)
Arrangements(S, n) ==
    IF n = 0 THEN {<<>>}
    ELSE {<<>>} \cup
         UNION {{<<x>> \o t : t \in Arrangements(S \ {x}, n - 1)} : x \in S}

Range(s) == {s[i] : i \in 1..Len(s)}

\* ------------------------------------------------------------------ errors
\* An error is the sequence of the parts of its message; nil is <<>>.
NoErr == <<>>
ErrNotFound(kind, name) == <<kind, name, "not found">>
ErrAlreadyExists(kind, name) == <<kind, name, "already exists">>
ErrConnection == <<"connection refused">>
ErrImmutable == <<"field is immutable">>

HasSuffix(s, suffix) ==
    /\ Len(s) >= Len(suffix)
    /\ SubSeq(s, Len(s) - Len(suffix) + 1, Len(s)) = suffix

alreadyExists(err) ==
    IF err = NoErr THEN FALSE ELSE HasSuffix(err, <<"already exists">>)

\* any error taken for a non-existent resource
doesNotExistAny(err) == err # NoErr

doesNotExist(err) ==
    IF err = NoErr THEN FALSE ELSE HasSuffix(err, <<"not found">>)

\* resourceError(action, namespace, name, mapping, err); every object of the
\* model has a mapping with a kind
resourceError(action, namespace, name, kind, err) ==
    <<"could not", action, namespace, name, kind>> \o err

\* ------------------------------------------------------- pure update helpers
\* no immutable field copied
copyImmutablesNone(src, dst) == dst

copyImmutables(src, dst) ==
    IF src = NilObj \/ dst = NilObj THEN dst
    ELSE IF src.kind = "Service" THEN [dst EXCEPT !.clusterIP = src.clusterIP]
    ELSE dst

\* update, lines 155-158: the desired object after the in-place mutation
Mutated(obj, live) ==
    copyImmutables(live, [obj EXCEPT !.rv = live.rv])

\* the comparison of line 161 never finding the objects equal
DeepEqualNever(a, b) == FALSE

DeepEqual(a, b) == a = b

PatchFields == {"spec", "rv", "type", "clusterIP", "ingress", "selector"}

\* diff(original, modified): the two-way merge patch carries the fields whose
\* value differs, with the value of modified
diff(original, modified) ==
    [fields |-> {f \in PatchFields : original[f] # modified[f]},
     obj |-> modified]

NoPatch == [fields |-> {}, obj |-> NilObj]

\* the type test of line 96 never succeeding
IsNamespaceNever(obj) == FALSE

IsNamespace(obj) == obj.kind = "Namespace"
IsRC(obj) == obj.kind = "ReplicationController"
IsLoadBalancer(s) == s.type = ServiceTypeLoadBalancer

\* Deployment.ObjectsOfVersionKind("", kind): the objects of the kind, in
\* bundle order
ObjectsOfVersionKind(objs, kind) ==
    SelectSeq(objs, LAMBDA o : o.kind = kind)

\* ------------------------------------------------------- the remote cluster
VARIABLE exportMasksIP  \* the server returns a masked cluster IP on export

\* The API server as the deployer sees it.  A cluster is a function from Keys
\* to the live object, NilObj where there is none.
Exists(cl, key) == cl[key] # NilObj

ServerAssignedIP == "10.0.0.1"
IngressIP == "1.2.3.4"
UnknownIP == "<unknown>"

\* what the server stores for a created object
Stored(obj) ==
    [obj EXCEPT !.rv = 1, !.ingress = {},
                !.clusterIP = IF obj.kind = "Service" /\ @ = ""
                              THEN ServerAssignedIP ELSE @]

\* POST
ServerCreate(cl, obj) ==
    IF Exists(cl, Key(obj))
    THEN [err |-> ErrAlreadyExists(obj.kind, obj.name), cluster |-> cl, obj |-> NilObj]
    ELSE IF obj.ns # "" /\ ~Exists(cl, NsKey(obj.ns))
    THEN [err |-> ErrNotFound("namespaces", obj.ns), cluster |-> cl, obj |-> NilObj]
    ELSE [err |-> NoErr, cluster |-> [cl EXCEPT ![Key(obj)] = Stored(obj)],
          obj |-> Stored(obj)]

\* GET with export=true strips the instance specific fields: the resource
\* version and the status; a Service's cluster IP is returned as it is or
\* masked, depending on the server
ExportView(live) ==
    LET stripped == [live EXCEPT !.rv = 0, !.ingress = {}]
    IN  IF live.kind = "Service" /\ exportMasksIP
        THEN [stripped EXCEPT !.clusterIP = UnknownIP]
        ELSE stripped

\* GET
ServerGet(cl, key, export) ==
    IF ~Exists(cl, key)
    THEN [err |-> ErrNotFound(key[1], key[3]), cluster |-> cl, obj |-> NilObj]
    ELSE [err |-> NoErr, cluster |-> cl,
          obj |-> IF export THEN ExportView(cl[key]) ELSE cl[key]]

\* the fields a PATCH of the main resource can change
ClientFields == {"spec", "type", "selector"}

\* PATCH (strategic merge patch)
ServerPatch(cl, key, p) ==
    IF ~Exists(cl, key)
    THEN [err |-> ErrNotFound(key[1], key[3]), cluster |-> cl, obj |-> NilObj]
    ELSE IF "clusterIP" \in p.fields /\ p.obj.clusterIP # cl[key].clusterIP
    THEN [err |-> ErrImmutable, cluster |-> cl, obj |-> NilObj]
    ELSE LET new == [f \in DOMAIN cl[key] |->
                       IF f = "rv" THEN cl[key].rv + 1
                       ELSE IF f \in p.fields \cap ClientFields THEN p.obj[f]
                       ELSE cl[key][f]]
         IN  [err |-> NoErr, cluster |-> [cl EXCEPT ![key] = new], obj |-> new]

\* a request that does not reach the server
Failed(cl) == [err |-> ErrConnection, cluster |-> cl, obj |-> NilObj]

\* pods in a fixed listing order
PodSeq == <<Pod("a", "p1", {"app"}), Pod("a", "p2", {"other"}),
            Pod("b", "p3", {"app"}), Pod("a", "p4", {"app", "other"})>>

\* a label selector built from a set matches the pods carrying all its labels
Matches(selector, pod) == selector \subseteq pod.labels

\* Pods(namespace).List(opts); the empty namespace lists all namespaces
ServerListPods(ps, namespace, selector) ==
    SelectSeq(PodSeq, LAMBDA p : /\ p \in ps
                                 /\ (namespace = "" \/ p.ns = namespace)
                                 /\ Matches(selector, p))

\* ------------------------------------------------------------------- state
VARIABLES
    bundle,             \* dep.Objects(): the desired objects, in order
    update,             \* Deploy argument
    deleteModifiedPods, \* Deploy argument
    client,             \* c.Client # nil
    localkube,          \* c.localkube
    cluster,            \* live objects of the remote cluster
    pods,               \* live pods of the remote cluster
    pc,                 \* position of the deployer
    idx,                \* general pass: index into bundle
    nsIdx,              \* namespace pre-pass: index into the namespaces
    deployed,           \* update: the fetched live object
    patch,              \* update: the computed patch
    podList,            \* deletePods: the listed pods
    podIdx,             \* deletePods: index into podList
    podsAtList,         \* history: the cluster's pods when they were listed
    services,           \* printLoadBalancers argument
    svcIdx,             \* printLoadBalancers: index into services
    completed,          \* printLoadBalancers: names marked completed
    ret,                \* the errors the Deploy calls returned (nil: success)
    log,                \* history: the requests of this Deploy call, with their result
    faults,             \* injected request failures so far
    polls,              \* polling rounds that left a service unassigned
    run,                \* number of the Deploy call
    initial             \* history: the bundle and the cluster Deploy started with

\* what stays as it is during a behaviour
args == <<update, deleteModifiedPods, client, localkube, exportMasksIP>>
locals == <<idx, nsIdx, deployed, patch, podList, podIdx, podsAtList,
            services, svcIdx, completed>>
vars == <<bundle, args, cluster, pods, pc, locals, ret, log, faults, polls, run,
          initial>>

\* ------------------------------------------------------------ initial states
LiveIP(o) == IF o.kind = "Service" THEN ServerAssignedIP ELSE ""

\* the live states an object of the bundle may be found in: 0 none, 1 as
\* desired, 2 with another spec, 3 (load balancers) with an ingress point
Variant(o, i) ==
    IF i = 0 THEN NilObj
    ELSE IF i = 1 THEN [o EXCEPT !.rv = 1, !.clusterIP = LiveIP(o)]
    ELSE IF i = 2 THEN [o EXCEPT !.rv = 1, !.clusterIP = LiveIP(o), !.spec = 2]
    ELSE [o EXCEPT !.rv = 1, !.clusterIP = LiveIP(o), !.ingress = {IngressIP}]

NumVariants(o) ==
    IF o.kind = "Namespace" THEN 1
    ELSE IF o.kind = "Service" /\ IsLoadBalancer(o) THEN 3
    ELSE 2

NamespaceB == [Obj("Namespace", "", "b", 1, "", "", {}) EXCEPT !.rv = 1]

\* clusters for a list of desired objects: namespace b exists, namespace a
\* may, every listed object is in one of its live variants, nothing else exists
InitClusters(objs) ==
    LET rel == Range(objs) \cup {NsA}
        choices == {c \in [rel -> 0..3] : \A o \in rel : c[o] <= NumVariants(o)}
    IN  {[k \in Keys |->
            IF k = NsKey("b") THEN NamespaceB
            ELSE IF \E o \in rel : Key(o) = k
            THEN LET o == CHOOSE x \in rel : Key(x) = k IN Variant(o, c[o])
            ELSE NilObj] : c \in choices}

EmptyCluster == [k \in Keys |-> IF k = NsKey("b") THEN NamespaceB ELSE NilObj]

InitLocals ==
    /\ idx = 0 /\ nsIdx = 0
    /\ deployed = NilObj /\ patch = NoPatch
    /\ podList = <<>> /\ podIdx = 0 /\ podsAtList = {}
    /\ svcIdx = 0 /\ completed = {}
    /\ ret = <<>>
    /\ log = <<>> /\ faults = 0 /\ polls = 0 /\ run = 1
    /\ initial = [bundle |-> bundle, cluster |-> cluster]

\* a Deploy call on a KubeCluster; deleteModifiedPods is only read when the
\* bundle has a ReplicationController, localkube when it has a Service, and a
\* Service is only exported in update mode
Init ==
    /\ bundle \in Arrangements(Pool, MaxBundle)
    /\ update \in BOOLEAN
    /\ client \in BOOLEAN
    /\ deleteModifiedPods \in
          IF ~client \/ ObjectsOfVersionKind(bundle, "ReplicationController") # <<>>
          THEN BOOLEAN ELSE {FALSE}
    /\ localkube \in IF ~client \/ ObjectsOfVersionKind(bundle, "Service") # <<>>
                     THEN BOOLEAN ELSE {FALSE}
    /\ exportMasksIP \in IF client /\ update
                            /\ ObjectsOfVersionKind(bundle, "Service") # <<>>
                         THEN BOOLEAN ELSE {FALSE}
    /\ cluster \in IF client THEN InitClusters(bundle) ELSE {EmptyCluster}
    /\ pods = PodsInit
    /\ pc = "start"
    /\ services = <<>>
    /\ InitLocals

\* ----------------------------------------------------------------- helpers
\* A logged request: the operation, the phase of Deploy that issued it, the
\* object addressed, the export flag, the fields of a patch, the error the
\* request returned, whether the object existed when the request was issued,
\* whether the response carried an ingress point, and the bundle index and
\* Deploy call the request belongs to.
\* a request may fail before it reaches the server
FaultChoices == IF faults < MaxFaults THEN {FALSE, TRUE} ELSE {FALSE}

Request(op, phase, obj, export, fields, err) ==
    [op |-> op, phase |-> phase, kind |-> obj.kind, ns |-> obj.ns,
     name |-> obj.name, export |-> export, fields |-> fields, err |-> err,
     existed |-> (Key(obj) \in Keys /\ Exists(cluster, Key(obj))),
     ingress |-> FALSE, idx |-> idx, run |-> run]

Issue(req, fault) ==
    /\ log' = Append(log, req)
    /\ faults' = IF fault THEN faults + 1 ELSE faults

\* Deploy returns err (nil: success)
Return(err) ==
    /\ pc' = "done"
    /\ ret' = Append(ret, err)

NoRequest == UNCHANGED <<log, faults, cluster, pods>>

\* the general pass left after one object
NextObjectBreak ==
    /\ pc' = "general"
    /\ idx' = Len(bundle) + 1

\* the next iteration of the general pass
NextObject ==
    /\ pc' = "general"
    /\ idx' = idx + 1

\* the pod cleanup run for every ReplicationController, whatever the flag
AfterDeployAlways(obj) ==
    IF IsRC(obj)
    THEN pc' = "listPods" /\ idx' = idx
    ELSE NextObject

\* Deploy, lines 100-110: after c.deploy succeeded for bundle[idx]
AfterDeploy(obj) ==
    IF IsRC(obj) /\ deleteModifiedPods
    THEN pc' = "listPods" /\ idx' = idx
    ELSE NextObject

\* a pre-pass that finds no Namespace
NamespacesNone == <<>>

\* line 85: the Namespaces of the bundle
Namespaces == ObjectsOfVersionKind(bundle, "Namespace")

\* ------------------------------------------------------------------ Deploy
\* Deploy entering the namespace loop without the test of lines 80-82
DeployStartUnchecked ==
    /\ pc = "start"
    /\ pc' = "namespaces"
    /\ nsIdx' = 1
    /\ NoRequest
    /\ UNCHANGED <<bundle, args, idx, deployed, patch, podList, podIdx,
                   podsAtList, services, svcIdx, completed, ret, polls, run, initial>>

\* lines 80-82 and the entry of the namespace loop
DeployStart ==
    /\ pc = "start"
    /\ IF ~client
       THEN /\ Return(<<"client not setup (was nil)">>)
            /\ UNCHANGED nsIdx
       ELSE /\ pc' = "namespaces"
            /\ nsIdx' = 1
            /\ UNCHANGED ret
    /\ NoRequest
    /\ UNCHANGED <<bundle, args, idx, deployed, patch, podList, podIdx,
                   podsAtList, services, svcIdx, completed, polls, run, initial>>

\* lines 85-91: one iteration of the namespace pre-pass
NamespaceCreate ==
    /\ pc = "namespaces"
    /\ nsIdx <= Len(Namespaces)
    /\ \E fault \in FaultChoices :
         LET ns == Namespaces[nsIdx]
             out == IF fault THEN Failed(cluster) ELSE ServerCreate(cluster, ns)
         IN  /\ Issue(Request("create", "namespaces", ns, FALSE, {}, out.err), fault)
             /\ cluster' = out.cluster
             /\ IF out.err # NoErr /\ ~alreadyExists(out.err)
                THEN Return(out.err) /\ UNCHANGED nsIdx
                ELSE nsIdx' = nsIdx + 1 /\ UNCHANGED <<pc, ret>>
    /\ UNCHANGED <<bundle, args, pods, idx, deployed, patch, podList, podIdx,
                   podsAtList, services, svcIdx, completed, polls, run, initial>>

\* line 94: the general pass starts when the namespaces are done
NamespacesDone ==
    /\ pc = "namespaces"
    /\ nsIdx > Len(Namespaces)
    /\ pc' = "general"
    /\ idx' = 1
    /\ nsIdx' = 0
    /\ NoRequest
    /\ UNCHANGED <<bundle, args, deployed, patch, podList, podIdx, podsAtList,
                   services, svcIdx, completed, ret, polls, run, initial>>

\* lines 96-98: don't create namespaces again
DeploySkipNamespace ==
    /\ pc = "general"
    /\ idx <= Len(bundle)
    /\ IsNamespace(bundle[idx])
    /\ NextObject
    /\ NoRequest
    /\ UNCHANGED <<bundle, args, nsIdx, deployed, patch, podList, podIdx,
                   podsAtList, services, svcIdx, completed, ret, polls, run, initial>>

\* create treating an already existing object as created, as the namespace
\* pre-pass does
CreateObjectAbsorb(phase) ==
    \E fault \in FaultChoices :
      LET obj == bundle[idx]
          out == IF fault THEN Failed(cluster) ELSE ServerCreate(cluster, obj)
      IN  /\ Issue(Request("create", phase, obj, FALSE, {}, out.err), fault)
          /\ cluster' = out.cluster
          /\ IF out.err # NoErr /\ ~alreadyExists(out.err)
             THEN /\ Return(resourceError("create", obj.name, obj.ns, obj.kind, out.err))
                  /\ UNCHANGED idx
             ELSE /\ AfterDeploy(obj)
                  /\ UNCHANGED ret

\* create, lines 225-237, for bundle[idx]: the request and what create returns
CreateObject(phase) ==
    \E fault \in FaultChoices :
      LET obj == bundle[idx]
          out == IF fault THEN Failed(cluster) ELSE ServerCreate(cluster, obj)
      IN  /\ Issue(Request("create", phase, obj, FALSE, {}, out.err), fault)
          /\ cluster' = out.cluster
          /\ IF out.err # NoErr
             THEN /\ Return(resourceError("create", obj.name, obj.ns, obj.kind, out.err))
                  /\ UNCHANGED idx
             ELSE /\ AfterDeploy(obj)
                  /\ UNCHANGED ret

\* deploy, lines 138-139: not updating, create the object
DeployCreate ==
    /\ pc = "general"
    /\ idx <= Len(bundle)
    /\ ~IsNamespace(bundle[idx])
    /\ ~update
    /\ CreateObject("create")
    /\ UNCHANGED <<bundle, args, pods, nsIdx, deployed, patch, podList, podIdx,
                   podsAtList, services, svcIdx, completed, polls, run, initial>>

\* the export argument update passes to get, line 146
UpdateGetExport == TRUE

\* update, lines 144-163: fetch the deployed object, set the resource version
\* and the immutable fields on the local object, compare
UpdateGet ==
    /\ pc = "general"
    /\ idx <= Len(bundle)
    /\ ~IsNamespace(bundle[idx])
    /\ update
    /\ \E fault \in FaultChoices :
         LET obj == bundle[idx]
             out == IF fault THEN Failed(cluster)
                    ELSE ServerGet(cluster, Key(obj), UpdateGetExport)
             err == IF out.err = NoErr THEN NoErr
                    ELSE resourceError("get", obj.ns, obj.name, obj.kind, out.err)
             local == Mutated(obj, out.obj)
         IN  /\ Issue(Request("get", "update", obj, UpdateGetExport, {}, out.err), fault)
             /\ IF doesNotExist(err)
                THEN /\ pc' = "updateCreate"
                     /\ UNCHANGED <<idx, ret, bundle, deployed, patch>>
                ELSE IF err # NoErr
                THEN /\ Return(err)
                     /\ UNCHANGED <<idx, bundle, deployed, patch>>
                ELSE /\ bundle' = [bundle EXCEPT ![idx] = local]
                     /\ IF DeepEqual(local, out.obj)
                        THEN /\ AfterDeploy(local)
                             /\ UNCHANGED <<deployed, patch, ret>>
                        ELSE /\ pc' = "patch"
                             /\ deployed' = out.obj
                             /\ patch' = diff(out.obj, local)
                             /\ UNCHANGED <<idx, ret>>
    /\ UNCHANGED <<args, cluster, pods, nsIdx, podList, podIdx, podsAtList,
                   services, svcIdx, completed, polls, run, initial>>

\* update, lines 147-148: the object does not exist, create it
UpdateCreate ==
    /\ pc = "updateCreate"
    /\ CreateObject("update")
    /\ UNCHANGED <<bundle, args, pods, nsIdx, deployed, patch, podList, podIdx,
                   podsAtList, services, svcIdx, completed, polls, run, initial>>

\* update sending the patch and falling back to create when the patch reports
\* not found
UpdatePatchFallback ==
    /\ pc = "patch"
    /\ \E fault \in FaultChoices :
         LET obj == bundle[idx]
             out == IF fault THEN Failed(cluster)
                    ELSE ServerPatch(cluster, Key(obj), patch)
         IN  /\ Issue(Request("patch", "update", obj, FALSE, patch.fields, out.err), fault)
             /\ cluster' = out.cluster
             /\ IF doesNotExist(out.err)
                THEN /\ pc' = "updateCreate"
                     /\ UNCHANGED <<idx, ret>>
                ELSE IF out.err # NoErr
                THEN /\ Return(resourceError("update", obj.ns, obj.name, obj.kind, out.err))
                     /\ UNCHANGED idx
                ELSE /\ AfterDeploy(obj)
                     /\ UNCHANGED ret
    /\ deployed' = NilObj
    /\ patch' = NoPatch
    /\ UNCHANGED <<bundle, args, pods, nsIdx, podList, podIdx, podsAtList,
                   services, svcIdx, completed, polls, run, initial>>

\* update, lines 165-181: send the patch
UpdatePatch ==
    /\ pc = "patch"
    /\ \E fault \in FaultChoices :
         LET obj == bundle[idx]
             out == IF fault THEN Failed(cluster)
                    ELSE ServerPatch(cluster, Key(obj), patch)
         IN  /\ Issue(Request("patch", "update", obj, FALSE, patch.fields, out.err), fault)
             /\ cluster' = out.cluster
             /\ IF out.err # NoErr
                THEN /\ Return(resourceError("update", obj.ns, obj.name, obj.kind, out.err))
                     /\ UNCHANGED idx
                ELSE /\ AfterDeploy(obj)
                     /\ UNCHANGED ret
    /\ deployed' = NilObj
    /\ patch' = NoPatch
    /\ UNCHANGED <<bundle, args, pods, nsIdx, podList, podIdx, podsAtList,
                   services, svcIdx, completed, polls, run, initial>>

\* the list request leaving out the controller's namespace
ListedPodsAllNamespaces(ps, rc) == ServerListPods(ps, "", rc.selector)

\* the pods deletePods asks for, lines 245-248
ListedPods(ps, rc) == ServerListPods(ps, rc.ns, rc.selector)

deletePodsError(rc, err) ==
    <<"could not delete pods for rc", rc.ns, rc.name>> \o err

\* deletePods, lines 245-251: list the pods of the controller
DeletePodsList ==
    /\ pc = "listPods"
    /\ \E fault \in FaultChoices :
         LET rc == bundle[idx]
             err == IF fault THEN ErrConnection ELSE NoErr
             items == IF fault THEN <<>> ELSE ListedPods(pods, rc)
             req == [Request("list", "pods", rc, FALSE, {}, err)
                        EXCEPT !.kind = "Pod", !.name = ""]
         IN  /\ Issue(req, fault)
             /\ podsAtList' = pods
             /\ IF err # NoErr
                THEN /\ Return(deletePodsError(rc, err))
                     /\ UNCHANGED <<idx, podList, podIdx>>
                ELSE IF items = <<>>
                THEN /\ NextObject
                     /\ podList' = <<>> /\ podIdx' = 0
                     /\ UNCHANGED ret
                ELSE /\ pc' = "deletePods"
                     /\ podList' = items /\ podIdx' = 1
                     /\ UNCHANGED <<idx, ret>>
    /\ UNCHANGED <<bundle, args, cluster, pods, nsIdx, deployed, patch,
                   services, svcIdx, completed, polls, run, initial>>

\* Pods(namespace).Delete(name)
ServerDeletePod(ps, namespace, name) ==
    IF \E p \in ps : p.ns = namespace /\ p.name = name
    THEN [err |-> NoErr, pods |-> {p \in ps : ~(p.ns = namespace /\ p.name = name)}]
    ELSE [err |-> ErrNotFound("pods", name), pods |-> ps]

\* deletePods, lines 254-259: delete one listed pod
DeletePodsDelete ==
    /\ pc = "deletePods"
    /\ podIdx <= Len(podList)
    /\ \E fault \in FaultChoices :
         LET rc == bundle[idx]
             pod == podList[podIdx]
             out == IF fault THEN [err |-> ErrConnection, pods |-> pods]
                    ELSE ServerDeletePod(pods, pod.ns, pod.name)
             req == [Request("delete", "pods", rc, FALSE, {}, out.err)
                        EXCEPT !.kind = "Pod", !.ns = pod.ns, !.name = pod.name]
         IN  /\ Issue(req, fault)
             /\ pods' = out.pods
             /\ IF out.err # NoErr
                THEN /\ Return(deletePodsError(rc, out.err))
                     /\ UNCHANGED <<idx, podIdx>>
                ELSE IF podIdx = Len(podList)
                THEN /\ NextObject
                     /\ podIdx' = podIdx + 1
                     /\ UNCHANGED ret
                ELSE /\ podIdx' = podIdx + 1
                     /\ UNCHANGED <<pc, idx, ret>>
    /\ UNCHANGED <<bundle, args, cluster, nsIdx, deployed, patch, podList,
                   podsAtList, services, svcIdx, completed, polls, run, initial>>

\* line 113: every object is applied, wait for the load balancers
DeployPrintLoadBalancers ==
    /\ pc = "general"
    /\ idx > Len(bundle)
    /\ pc' = "lbStart"
    /\ services' = ObjectsOfVersionKind(bundle, "Service")
    /\ idx' = 0
    /\ NoRequest
    /\ UNCHANGED <<bundle, args, nsIdx, deployed, patch, podList, podIdx,
                   podsAtList, svcIdx, completed, ret, polls, run, initial>>

\* ------------------------------------------------------ printLoadBalancers
\* the key of the completed map for a service, lines 472, 491, 498, 506
CompletedKey(s) == s.name

\* done asking for every service of the list, whatever its type
doneAllServices ==
    \A i \in 1..Len(services) : CompletedKey(services[i]) \in completed

\* done, lines 469-477: every load balancer service has been seen
done ==
    \A i \in 1..Len(services) :
        ~(IsLoadBalancer(services[i]) /\ CompletedKey(services[i]) \notin completed)

\* lines 461-466
PrintLoadBalancersStart ==
    /\ pc = "lbStart"
    /\ IF Len(services) = 0
       THEN Return(NoErr) /\ UNCHANGED completed
       ELSE pc' = "lbCheck" /\ completed' = {} /\ UNCHANGED ret
    /\ NoRequest
    /\ UNCHANGED <<bundle, args, idx, nsIdx, deployed, patch, podList, podIdx,
                   podsAtList, services, svcIdx, polls, run, initial>>

\* every LoadBalancer service of the list is live with an ingress point
AllAssigned ==
    \A i \in 1..Len(services) :
        IsLoadBalancer(services[i]) =>
            /\ Exists(cluster, Key(services[i]))
            /\ cluster[Key(services[i])].ingress # {}

\* lines 479-487: the head of the polling loop; the rounds that leave a
\* service without an ingress point are counted up to MaxPolls
PrintLoadBalancersCheck ==
    /\ pc = "lbCheck"
    /\ IF done
       THEN Return(NoErr) /\ svcIdx' = 0
       ELSE /\ polls < MaxPolls \/ AllAssigned
            /\ pc' = "lbRound" /\ svcIdx' = 1 /\ UNCHANGED ret
    /\ NoRequest
    /\ UNCHANGED <<bundle, args, idx, nsIdx, deployed, patch, podList, podIdx,
                   podsAtList, services, completed, polls, run, initial>>

\* Services(namespace).Get(name): on an error the result is an empty Service
ServicesGet(cl, s, fault) ==
    IF fault THEN Failed(cl) ELSE ServerGet(cl, Key(s), FALSE)

\* lines 497-517: the names marked completed by one poll of service s that
\* returned clusterVers
Seen(s, clusterVers) ==
    (IF localkube THEN {CompletedKey(s)} ELSE {})
    \cup (IF clusterVers.ingress # {} THEN {CompletedKey(s)} ELSE {})

\* lines 489-518: one service of a polling round that is fetched
PrintLoadBalancersPoll ==
    /\ pc = "lbRound"
    /\ svcIdx <= Len(services)
    /\ IsLoadBalancer(services[svcIdx])
    /\ CompletedKey(services[svcIdx]) \notin completed
    /\ \E fault \in FaultChoices :
         LET s == services[svcIdx]
             out == ServicesGet(cluster, s, fault)
         IN  /\ Issue([Request("get", "lb", s, FALSE, {}, out.err)
                        EXCEPT !.ingress = out.obj.ingress # {}], fault)
             /\ completed' = completed \cup Seen(s, out.obj)
    /\ svcIdx' = svcIdx + 1
    /\ UNCHANGED <<bundle, args, cluster, pods, pc, idx, nsIdx, deployed, patch,
                   podList, podIdx, podsAtList, services, ret, polls, run, initial>>

\* line 491: a service that is no load balancer or is completed is passed over
PrintLoadBalancersSkip ==
    /\ pc = "lbRound"
    /\ svcIdx <= Len(services)
    /\ ~(IsLoadBalancer(services[svcIdx])
         /\ CompletedKey(services[svcIdx]) \notin completed)
    /\ svcIdx' = svcIdx + 1
    /\ NoRequest
    /\ UNCHANGED <<bundle, args, pc, idx, nsIdx, deployed, patch, podList,
                   podIdx, podsAtList, services, completed, ret, polls, run, initial>>

\* lines 521-522: the round is over, sleep
PrintLoadBalancersSleep ==
    /\ pc = "lbRound"
    /\ svcIdx > Len(services)
    /\ pc' = "lbCheck"
    /\ svcIdx' = 0
    /\ polls' = IF AllAssigned THEN polls ELSE polls + 1
    /\ NoRequest
    /\ UNCHANGED <<bundle, args, idx, nsIdx, deployed, patch, podList, podIdx,
                   podsAtList, services, completed, ret, run, initial>>

\* ------------------------------------------------------------- environment
\* the control plane assigns an ingress point to a load balancer service; an
\* assignment during a round shows in the fetches as one before or one after
\* the round does
AssignIngress ==
    /\ pc = "lbCheck"
    /\ \E k \in Keys :
         /\ Exists(cluster, k)
         /\ cluster[k].kind = "Service"
         /\ IsLoadBalancer(cluster[k])
         /\ cluster[k].ingress = {}
         /\ cluster' = [cluster EXCEPT ![k].ingress = {IngressIP}]
    /\ UNCHANGED <<bundle, args, pods, pc, locals, ret, log, faults, polls, run,
                   initial>>

\* another writer creates or deletes the object update is working on, between
\* the fetch of line 146 and the create of line 148 or the patch of line 176
ExternalWrite ==
    /\ pc \in {"updateCreate", "patch"}
    /\ LET k == Key(bundle[idx])
       IN  IF Exists(cluster, k)
           THEN cluster' = [cluster EXCEPT ![k] = NilObj]
           ELSE \E v \in 1..2 :
                    cluster' = [cluster EXCEPT ![k] = Variant(initial.bundle[idx], v)]
    /\ UNCHANGED <<bundle, args, pods, pc, locals, ret, log, faults, polls, run,
                   initial>>

\* the caller deploys the same bundle again after a successful Deploy
Redeploy ==
    /\ pc = "done"
    /\ ret[Len(ret)] = NoErr
    /\ run < MaxRuns
    /\ run' = run + 1
    /\ pc' = "start"
    /\ services' = <<>> /\ completed' = {} /\ svcIdx' = 0
    /\ podList' = <<>> /\ podIdx' = 0 /\ podsAtList' = {}
    /\ log' = <<>>
    /\ UNCHANGED <<bundle, args, cluster, pods, idx, nsIdx, deployed, patch, ret,
                   faults, polls, initial>>

\* ------------------------------------------------------------ specifications
Next ==
    \/ DeployStart
    \/ NamespaceCreate
    \/ NamespacesDone
    \/ DeploySkipNamespace
    \/ DeployCreate
    \/ UpdateGet
    \/ UpdateCreate
    \/ UpdatePatch
    \/ DeletePodsList
    \/ DeletePodsDelete
    \/ DeployPrintLoadBalancers
    \/ PrintLoadBalancersStart
    \/ PrintLoadBalancersCheck
    \/ PrintLoadBalancersPoll
    \/ PrintLoadBalancersSkip
    \/ PrintLoadBalancersSleep
    \/ AssignIngress
    \/ Redeploy

Spec == Init /\ [][Next]_vars

\* printLoadBalancers called on a list of services
InitLB ==
    /\ services \in Arrangements(SvcPool, MaxServices)
    /\ bundle = <<>>
    /\ update = FALSE /\ deleteModifiedPods = FALSE
    /\ localkube \in BOOLEAN /\ client = TRUE
    /\ exportMasksIP = FALSE
    /\ cluster \in InitClusters(services)
    /\ \A k \in Keys : cluster[k].spec # 2
    /\ pods = PodsInit
    /\ pc = "lbStart"
    /\ InitLocals

NextLB ==
    \/ PrintLoadBalancersStart
    \/ PrintLoadBalancersCheck
    \/ PrintLoadBalancersPoll
    \/ PrintLoadBalancersSkip
    \/ PrintLoadBalancersSleep
    \/ AssignIngress

SpecLB == InitLB /\ [][NextLB]_vars

\* Deploy runs in one goroutine, and the polling loop only sleeps between its
\* rounds: a step of the deployer that can be taken is taken.  The control
\* plane and the caller are under no obligation.
Deployer ==
    \/ DeployStart
    \/ NamespaceCreate
    \/ NamespacesDone
    \/ DeploySkipNamespace
    \/ DeployCreate
    \/ UpdateGet
    \/ UpdateCreate
    \/ UpdatePatch
    \/ DeletePodsList
    \/ DeletePodsDelete
    \/ DeployPrintLoadBalancers
    \/ PrintLoadBalancersStart
    \/ PrintLoadBalancersCheck
    \/ PrintLoadBalancersPoll
    \/ PrintLoadBalancersSkip
    \/ PrintLoadBalancersSleep

\* one Deploy call, with the control plane at work
NextCall ==
    \/ Deployer
    \/ AssignIngress

FairSpec == Init /\ [][NextCall]_vars /\ WF_vars(Deployer)

\* one Deploy call on a cluster another writer works on
NextWriter ==
    \/ Deployer
    \/ AssignIngress
    \/ ExternalWrite

SpecWriter == Init /\ [][NextWriter]_vars

\* ------------------------------------------------------------- properties
LogIdx == 1..Len(log)

\* request i of the log addresses object o
Addresses(i, o) ==
    log[i].kind = o.kind /\ log[i].ns = o.ns /\ log[i].name = o.name

\* the number of op requests of Deploy call r for object o, polls aside
Count(op, o, r) ==
    Cardinality({i \in LogIdx : /\ log[i].op = op /\ log[i].run = r
                                /\ log[i].phase # "lb" /\ Addresses(i, o)})

\* the error the current Deploy call returned
Returned == pc = "done"
LastRet == ret[Len(ret)]

\* C1: in one Deploy call every Namespace of the bundle has had its create
\* request before the first request for anything that is not a Namespace, and
\* no Namespace create request follows such a request.
NamespaceFirst ==
    \A j \in LogIdx :
        log[j].kind # "Namespace" =>
            /\ \A i \in LogIdx :
                  (i > j /\ log[i].run = log[j].run) =>
                      ~(log[i].kind = "Namespace" /\ log[i].op = "create")
            /\ \A n \in 1..Len(bundle) :
                  bundle[n].kind = "Namespace" =>
                      \E i \in LogIdx :
                          /\ i < j /\ log[i].run = log[j].run
                          /\ log[i].op = "create" /\ Addresses(i, bundle[n])

\* a bundle that lists a Namespace after another object has been deployed up
\* to a request for that other object
NamespaceFirstWitness ==
    /\ Len(bundle) >= 2
    /\ bundle[1].kind # "Namespace"
    /\ bundle[2].kind = "Namespace"
    /\ \E j \in LogIdx : log[j].idx = 1 /\ log[j].kind # "Namespace"
                         /\ log[j].err = NoErr

\* the objects of the bundle Deploy was first called with that are no
\* Namespace and had a live object then
LiveAtStart ==
    {o \in Range(initial.bundle) :
        o.kind # "Namespace" /\ initial.cluster[Key(o)] # NilObj}

DiffersInPatchedField(o) ==
    \E f \in ClientFields : initial.cluster[Key(o)][f] # o[f]

Conflict(req) ==
    /\ ~update /\ req.op = "create" /\ req.kind # "Namespace" /\ req.existed

\* C3: in non-update mode a create request for an object that is no Namespace
\* and exists remotely fails, makes Deploy return an error and leaves the
\* cluster as it was, and no request of the same Deploy call follows it.
CreateConflictAborts ==
    [][/\ (Len(log') > Len(log) /\ Conflict(log'[Len(log')])) =>
            /\ log'[Len(log')].err # NoErr
            /\ pc' = "done"
            /\ ret'[Len(ret')] # NoErr
            /\ cluster' = cluster /\ pods' = pods
       /\ (Len(log') > Len(log) /\ log # <<>> /\ Conflict(log[Len(log)])) =>
            log'[Len(log')].run # log[Len(log)].run]_vars

\* Deploy in non-update mode has returned an error at a first object that
\* exists remotely, with a second object of the bundle left
CreateConflictWitness ==
    /\ Returned /\ LastRet # NoErr
    /\ Len(bundle) = 2
    /\ bundle[2].kind # "Namespace"
    /\ log # <<>>
    /\ log[Len(log)].idx = 1
    /\ Conflict(log[Len(log)])

\* the pods of the controller's namespace that match its selector, among ps
ControllerPods(ps, rc) ==
    {p \in ps : p.ns = rc.ns /\ rc.selector \subseteq p.labels}

\* the pods deleted for bundle[n] in Deploy call r
DeletedFor(n, r) ==
    {[ns |-> log[i].ns, name |-> log[i].name] :
        i \in {j \in LogIdx : /\ log[j].op = "delete" /\ log[j].idx = n
                              /\ log[j].run = r /\ log[j].err = NoErr}}

ConvergenceCompletion ==
    (Returned /\ ~localkube) =>
        \A n \in 1..Len(services) :
            IsLoadBalancer(services[n]) =>
                \E i \in LogIdx : /\ log[i].phase = "lb"
                                  /\ Addresses(i, services[n])
                                  /\ log[i].ingress

\* C6: no patch request changes ClusterIP, and a Service that existed when
\* Deploy was called keeps its live ClusterIP, whatever the desired object
\* specifies.
ClusterIPPreserved ==
    /\ \A i \in LogIdx : log[i].op = "patch" => "clusterIP" \notin log[i].fields
    /\ \A o \in LiveAtStart :
          o.kind = "Service" =>
              cluster[Key(o)].clusterIP = initial.cluster[Key(o)].clusterIP

\* a Service whose desired ClusterIP differs from the live one has been
\* patched
ClusterIPPreservedWitness ==
    \E o \in LiveAtStart :
        /\ o.kind = "Service"
        /\ o.clusterIP # initial.cluster[Key(o)].clusterIP
        /\ \E i \in LogIdx : /\ log[i].op = "patch" /\ Addresses(i, o)
                             /\ log[i].err = NoErr
        /\ cluster[Key(o)].spec # initial.cluster[Key(o)].spec

\* the errors Deploy is documented to absorb: already exists from a Namespace
\* create of the pre-pass, not found from the fetch of update
Absorbed(i) ==
    \/ /\ log[i].phase = "namespaces" /\ log[i].op = "create"
       /\ log[i].err = ErrAlreadyExists(log[i].kind, log[i].name)
    \/ /\ log[i].phase = "update" /\ log[i].op = "get"
       /\ log[i].err = ErrNotFound(log[i].kind, log[i].name)

\* C7 as stated: a request that fails with an error that is not absorbed is
\* the last request of its Deploy call and the call returns an error; no
\* request is issued twice for the same object and operation in one call.
FirstErrorAborts ==
    /\ \A i \in LogIdx :
          (log[i].err # NoErr /\ ~Absorbed(i)) =>
              /\ \A j \in LogIdx : j > i => log[j].run # log[i].run
              /\ Len(ret) >= log[i].run
              /\ ret[log[i].run] # NoErr
    /\ \A i, j \in LogIdx :
          (i < j /\ log[i].run = log[j].run /\ log[i].op = log[j].op)
              => ~Addresses(i, [kind |-> log[j].kind, ns |-> log[j].ns,
                                name |-> log[j].name])

\* C8 as stated: a Deploy call that returned nil issued no request that
\* failed, absorbed errors aside.
OnlyAbsorbedErrors ==
    \A r \in 1..Len(ret) :
        ret[r] = NoErr =>
            \A i \in LogIdx :
                (log[i].run = r /\ log[i].err # NoErr) => Absorbed(i)

\* the create and patch requests that follow fetch i for the same bundle
\* object in the same Deploy call
Following(i, op) ==
    {j \in LogIdx : /\ log[j].op = op /\ log[j].idx = log[i].idx
                    /\ log[j].run = log[i].run /\ log[j].phase = "update"}

\* C9: in update mode a fetch that reports not found is followed by exactly
\* one create request and no patch request, and the step succeeds when the
\* create does; a fetch that returns the live object is followed by no create
\* request; a fetch that fails otherwise is followed by no request at all and
\* Deploy returns an error.
CreateOrUpdateDispatch ==
    \A i \in LogIdx :
        (log[i].op = "get" /\ log[i].phase = "update") =>
            /\ log[i].err = ErrNotFound(log[i].kind, log[i].name) =>
                  /\ Following(i, "patch") = {}
                  /\ IF i = Len(log)
                     THEN pc = "updateCreate"
                     ELSE /\ Following(i, "create") = {i + 1}
                          /\ (log[i + 1].err = NoErr /\ i + 1 = Len(log) /\ Returned)
                                => LastRet = NoErr
            /\ log[i].err = NoErr => Following(i, "create") = {}
            /\ log[i].err \notin {NoErr, ErrNotFound(log[i].kind, log[i].name)} =>
                  /\ Following(i, "create") = {} /\ Following(i, "patch") = {}
                  /\ \A j \in LogIdx : j > i => log[j].run # log[i].run
                  /\ Len(ret) >= log[i].run
                  /\ ret[log[i].run] # NoErr

\* a fetch reported not found, the object was created, and the bundle goes on
CreateOrUpdateDispatchWitness ==
    \E i \in LogIdx :
        /\ log[i].op = "get" /\ log[i].phase = "update"
        /\ log[i].err = ErrNotFound(log[i].kind, log[i].name)
        /\ i + 2 <= Len(log)
        /\ log[i + 1].op = "create" /\ log[i + 1].err = NoErr
        /\ log[i + 2].idx = log[i].idx + 1

\* C10 as stated: the get requests of update are sent without the export flag.
UpdateGetNotExported ==
    \A i \in LogIdx :
        (log[i].op = "get" /\ log[i].phase = "update") => ~log[i].export

\* C11 as stated: a pod list or pod delete request is issued for a
\* ReplicationController only if the same Deploy call modified the controller
\* before, that is a create or a patch request for it succeeded; a controller
\* whose update sent no patch gets no pod request.
PodsOnlyForModified ==
    \A j \in LogIdx :
        log[j].phase = "pods" =>
            \E i \in LogIdx :
                /\ i < j
                /\ log[i].op \in {"create", "patch"}
                /\ log[i].idx = log[j].idx /\ log[i].run = log[j].run
                /\ log[i].err = NoErr

\* C12: if from some point on every LoadBalancer service of the list is live
\* with an ingress point (the failures of fetches are finite in every
\* behaviour), a Deploy call that has not returned, inside printLoadBalancers
\* or before it, eventually returns.
WaitTerminates ==
    (<>[]AllAssigned) => ((pc # "done") ~> (pc = "done"))

\* Deploy has returned nil after printLoadBalancers polled a service that had
\* no ingress point and polled it again when it had one
WaitTerminatesWitness ==
    /\ Returned /\ LastRet = NoErr /\ ~localkube
    /\ \E i, j \in LogIdx :
          /\ i < j /\ log[i].phase = "lb" /\ log[j].phase = "lb"
          /\ log[i].run = log[j].run
          /\ log[i].name = log[j].name /\ log[i].ns = log[j].ns
          /\ log[i].err = NoErr /\ ~log[i].ingress /\ log[j].ingress

\* the action resourceError is called with for a request
ActionOf(req) == IF req.op = "patch" THEN "update" ELSE req.op

\* C13 as stated: the error Deploy returns after a failed get, create or patch
\* request of the general pass carries the action, the object's namespace in
\* the namespace position, its name in the name position, and its kind.
ErrorContext ==
    (/\ Returned /\ LastRet # NoErr /\ log # <<>>
     /\ log[Len(log)].phase \in {"create", "update"}) =>
        LET req == log[Len(log)]
        IN  LastRet = resourceError(ActionOf(req), req.ns, req.name, req.kind,
                                    req.err)

\* C14: on a KubeCluster whose client is not set Deploy issues no request,
\* changes nothing on the cluster and in the bundle, and returns the error
\* "client not setup (was nil)", whatever the bundle and the flags.
NoClientNoEffect ==
    ~client =>
        /\ pc \in {"start", "done"}
        /\ log = <<>>
        /\ cluster = initial.cluster /\ pods = PodsInit
        /\ bundle = initial.bundle
        /\ Returned => LastRet = <<"client not setup (was nil)">>

\* Deploy has returned on a KubeCluster without client, called with a bundle of
\* two objects and both flags set
NoClientNoEffectWitness ==
    /\ ~client /\ Returned /\ LastRet # NoErr
    /\ Len(bundle) = 2 /\ update /\ deleteModifiedPods

\* the phases of the general pass
GeneralPhases == {"create", "update", "pods"}

\* the namespace pre-pass of the current Deploy call is through
PrePassDone ==
    \/ pc \in {"general", "updateCreate", "patch", "listPods", "deletePods",
                "lbStart", "lbCheck", "lbRound"}
    \/ Returned /\ LastRet = NoErr

\* C15: the requests of the general pass follow the order of the bundle, all
\* requests for one object (its pod cleanup included) before the first for
\* the next; none of them addresses a Namespace; and a Namespace of the bundle
\* gets no get and no patch request and, in a Deploy call that gets through
\* the pre-pass, exactly one create request, in update mode and without.
GeneralPassOrder ==
    /\ \A i, j \in LogIdx :
          (i < j /\ log[i].phase \in GeneralPhases
                 /\ log[j].phase \in GeneralPhases) => log[i].idx <= log[j].idx
    /\ \A i \in LogIdx :
          log[i].phase \in {"create", "update"} =>
              /\ log[i].kind # "Namespace"
              /\ Addresses(i, bundle[log[i].idx])
    /\ \A n \in 1..Len(bundle) :
          IsNamespace(bundle[n]) =>
              /\ Count("get", bundle[n], run) = 0
              /\ Count("patch", bundle[n], run) = 0
              /\ Count("create", bundle[n], run) <= 1
              /\ PrePassDone => Count("create", bundle[n], run) = 1

\* an update Deploy of a ReplicationController followed by another object has
\* returned nil: the controller was fetched, its pods were listed and deleted,
\* and the requests for the second object came after
GeneralPassOrderWitness ==
    /\ update /\ Len(bundle) = 2
    /\ IsRC(bundle[1]) /\ ~IsNamespace(bundle[2])
    /\ Returned /\ LastRet = NoErr
    /\ \E i, j \in LogIdx :
          /\ i < j
          /\ log[i].idx = 1 /\ log[i].op = "delete"
          /\ log[j].idx = 2 /\ log[j].phase = "update"

\* C16: when a fetch of the load-balancer wait is issued, every object of the
\* bundle that is no Namespace has had a successful request of the general
\* pass, no request before the fetch failed with an error that is not
\* absorbed, and no request of the general pass follows; and when Deploy has
\* returned nil, printLoadBalancers was called with the Services of the bundle
\* and has returned, every LoadBalancer service being marked completed.
WaitAfterBundle ==
    /\ \A j \in LogIdx :
          log[j].phase = "lb" =>
              /\ \A n \in 1..Len(bundle) :
                    ~IsNamespace(bundle[n]) =>
                        \E i \in LogIdx :
                            /\ i < j /\ log[i].idx = n
                            /\ log[i].phase \in {"create", "update"}
                            /\ log[i].err = NoErr
              /\ \A i \in LogIdx :
                    /\ (i < j /\ log[i].phase # "lb") =>
                          (log[i].err = NoErr \/ Absorbed(i))
                    /\ i > j => log[i].phase = "lb"
    /\ (Returned /\ LastRet = NoErr) =>
          /\ services = ObjectsOfVersionKind(bundle, "Service")
          /\ done

\* Deploy has returned nil for a LoadBalancer service followed by a
\* ReplicationController whose pods were deleted, after a wait of two fetches
WaitAfterBundleWitness ==
    /\ Returned /\ LastRet = NoErr /\ Len(bundle) = 2
    /\ IsLoadBalancer(bundle[1]) /\ IsRC(bundle[2])
    /\ \E i, j, k \in LogIdx :
          /\ i < j /\ j < k
          /\ log[i].op = "delete" /\ log[i].idx = 2
          /\ log[j].phase = "lb" /\ log[k].phase = "lb"

\* the fetches of the load-balancer wait for service s
Fetches(s) == {i \in LogIdx : log[i].phase = "lb" /\ Addresses(i, s)}

\* C17 as stated: on localkube, when printLoadBalancers has returned every
\* LoadBalancer service of the list was fetched exactly once; on every
\* cluster only LoadBalancer services of the list are fetched, and nothing is
\* fetched for an empty list.
LocalkubeOneRound ==
    /\ (localkube /\ Returned) =>
          \A n \in 1..Len(services) :
              IsLoadBalancer(services[n]) =>
                  Cardinality(Fetches(services[n])) = 1
    /\ \A i \in LogIdx :
          log[i].phase = "lb" =>
              \E n \in 1..Len(services) :
                  IsLoadBalancer(services[n]) /\ Addresses(i, services[n])

\* C18 as stated: a LoadBalancer service of the list is marked completed only
\* when a fetch of it has succeeded, on every cluster variant; so the wait
\* does not end on a failed fetch.
CompletedAfterFetch ==
    \A n \in 1..Len(services) :
        (IsLoadBalancer(services[n])
         /\ CompletedKey(services[n]) \in completed) =>
            \E i \in Fetches(services[n]) : log[i].err = NoErr

\* what C19 says of delete requests and of the objects of the cluster: a
\* delete request is for a Pod and is issued only with deleteModifiedPods set
\* and a ReplicationController in the bundle; an object that was live when
\* Deploy was first called or that Deploy created is still live.
NothingDeleted ==
    /\ \A i \in LogIdx :
          log[i].op = "delete" =>
              /\ log[i].kind = "Pod"
              /\ deleteModifiedPods
              /\ \E n \in 1..Len(bundle) : IsRC(bundle[n])
    /\ \A k \in Keys : Exists(initial.cluster, k) => Exists(cluster, k)
    /\ \A i \in LogIdx :
          (log[i].op = "create" /\ log[i].err = NoErr) =>
              Exists(cluster, <<log[i].kind, log[i].ns, log[i].name>>)

Fetched(n) ==
    {i \in LogIdx : /\ log[i].op = "get" /\ log[i].phase = "update"
                    /\ log[i].idx = n /\ log[i].err = NoErr}

\* Deploy changes no field of a bundle object but the resource version and a
\* Service's ClusterIP, nothing without update, and in a first call nothing
\* of an object no fetch returned
OnlyVersionAndIP ==
    \A n \in 1..Len(bundle) :
        /\ \A f \in DOMAIN bundle[n] :
              (f # "rv" /\ ~(f = "clusterIP" /\ bundle[n].kind = "Service")) =>
                  bundle[n][f] = initial.bundle[n][f]
        /\ ~update => bundle[n] = initial.bundle[n]
        /\ (run = 1 /\ Fetched(n) = {}) => bundle[n] = initial.bundle[n]

\* C20 as stated: OnlyVersionAndIP, and a bundle object a fetch of this
\* Deploy call returned carries the live ClusterIP (Service) and, until it is
\* patched, the live resource version.
MutationConfined ==
    /\ OnlyVersionAndIP
    /\ \A n \in 1..Len(bundle) :
          Fetched(n) # {} =>
              LET live == cluster[Key(bundle[n])]
              IN  /\ bundle[n].kind = "Service" =>
                        bundle[n].clusterIP = live.clusterIP
                  /\ (\A i \in LogIdx : ~(log[i].op = "patch" /\ log[i].idx = n
                                            /\ log[i].err = NoErr)) =>
                        bundle[n].rv = live.rv

\* request j of update follows a fetch of the same bundle object at once, and
\* the fetch returned err
AfterFetch(j, err) ==
    /\ j > 1
    /\ log[j - 1].op = "get" /\ log[j - 1].phase = "update"
    /\ log[j - 1].idx = log[j].idx
    /\ log[j - 1].err = err

\* C21: in update mode, with another writer creating or deleting the object
\* between the fetch and the write, a create request is issued only right
\* after a fetch that reported not found and a patch request only right after
\* a fetch that succeeded; a patch whose target has vanished fails with not
\* found and a create whose object has appeared fails with already exists
\* (or either fails on the way to the server);
\* and a create or patch that fails is the last request, Deploy returning an
\* error that carries the failure.
CheckThenAct ==
    \A j \in LogIdx :
        log[j].phase = "update" =>
            /\ log[j].op = "create" =>
                  AfterFetch(j, ErrNotFound(log[j].kind, log[j].name))
            /\ log[j].op = "patch" => AfterFetch(j, NoErr)
            /\ (log[j].op = "patch" /\ ~log[j].existed) =>
                  log[j].err \in {ErrNotFound(log[j].kind, log[j].name),
                                  ErrConnection}
            /\ (log[j].op = "create" /\ log[j].existed) =>
                  log[j].err \in {ErrAlreadyExists(log[j].kind, log[j].name),
                                  ErrConnection}
            /\ (log[j].op \in {"create", "patch"} /\ log[j].err # NoErr) =>
                  /\ j = Len(log)
                  /\ Returned
                  /\ LastRet # NoErr
                  /\ HasSuffix(LastRet, log[j].err)

\* the object vanished after a successful fetch: the patch has failed with
\* not found and Deploy has returned the error
CheckThenActWitness ==
    /\ Returned /\ doesNotExist(LastRet)
    /\ log[Len(log)].op = "patch" /\ ~log[Len(log)].existed
    /\ log[Len(log) - 1].op = "get" /\ log[Len(log) - 1].existed
    /\ log[Len(log) - 1].err = NoErr

\* the object appeared after a fetch that reported not found: the create has
\* failed with already exists and Deploy has returned the error
CheckThenActAppeared ==
    /\ Returned /\ alreadyExists(LastRet)
    /\ log[Len(log)].op = "create" /\ log[Len(log)].phase = "update"
    /\ log[Len(log)].existed
    /\ log[Len(log) - 1].op = "get" /\ ~log[Len(log) - 1].existed

====
